---- MODULE Spec2Model ----
(***************************************************************************)
(* Model of the recover_pdfCAD pipeline.                                   *)
(*                                                                         *)
(*   Spec      : Step 1, scripts/process_pdf_cad.py - Pass 1               *)
(*               (analyze_global_shapes) followed by Pass 2                *)
(*               (process_and_export) over one corpus.                     *)
(*   SpecCompose   : mult_matrix / transform_point of                      *)
(*               scripts/crop_shapes.py applied to drawn operands.         *)
(*   SpecTransform : get_global_transform of scripts/crop_shapes.py on one *)
(*               page content stream.                                      *)
(*   SpecCrop  : the instance loop of crop_shapes (scripts/crop_shapes.py) *)
(*               over one document.                                        *)
(*   SpecMark  : the box loop of generate_marked_pdf                       *)
(*               (scripts/detect_markers.py).                              *)
(*                                                                         *)
(* Text is modelled as a sequence of atoms; an atom is either one          *)
(* whitespace character or one whole token (a number or an operator), and  *)
(* two tokens are always separated by at least one whitespace atom.        *)
(***************************************************************************)
EXTENDS Integers, Sequences, FiniteSets, TLC

\* ------------------------------------------------------------------------
\* Bounds
\* ------------------------------------------------------------------------
MaxPages == 2
MaxStreams == 2
MaxFrags == 4
MaxElems == 3
MaxDocPages == 2
MaxInst == 2

\* Coordinates of SpecCrop are multiples of 1 / Scale of a page unit.
Scale == 2

U(n) == n * Scale

Half == Scale \div 2

\* ------------------------------------------------------------------------
\* Generic helpers
\* ------------------------------------------------------------------------
Range(s) == {s[k] : k \in DOMAIN s}

SetMin(S) == CHOOSE x \in S : \A y \in S : x <= y

SetMax(S) == CHOOSE x \in S : \A y \in S : y <= x

\* ------------------------------------------------------------------------
\* Text: atoms, tokens, numbers
\* ------------------------------------------------------------------------
Whitespace == {" ", "\n"}

\* the tokens float() accepts
FloatTokens == {"0", "1", "5", "10"}

\* tokens made only of the characters of the class [0-9.\-]
NumTokens == FloatTokens \cup {"-", "1.2.3"}

\* float(x) on the numeric tokens of the model's alphabet
NumVal(t) ==
    CASE t = "0" -> 0
      [] t = "1" -> 1
      [] t = "5" -> 5
      [] t = "10" -> 10

\* str.split(): the whitespace-separated tokens of a text
Tokens(s) == SelectSeq(s, LAMBDA a : a \notin Whitespace)

RECURSIVE Join(_)
\* ' '.join(tokens)
Join(toks) ==
    IF Len(toks) = 0 THEN << >>
    ELSE IF Len(toks) = 1 THEN toks
    ELSE <<toks[1], " ">> \o Join(Tail(toks))

normalize_snippet(snippet) == Join(Tokens(snippet))

\* ------------------------------------------------------------------------
\* get_bounding_box
\* ------------------------------------------------------------------------
\* start positions, in the token sequence, of the matches of a pattern
\* "n numeric operands, then an operator beginning with one of ops"
OperandMatches(toks, n, ops) ==
    {k \in 1..(Len(toks) - n) :
        /\ \A j \in 0..(n - 1) : toks[k + j] \in NumTokens
        /\ toks[k + n] \in ops}

get_bounding_box(snippet) ==
    LET toks == Tokens(snippet)
        points == OperandMatches(toks, 2, {"m", "l"})
        curves == OperandMatches(toks, 6, {"c", "cm", "cs"})
        rects == OperandMatches(toks, 4, {"re"})
        V(k) == NumVal(toks[k])
        x_coords == {V(k) : k \in points}
                    \cup UNION {{V(k), V(k + 2), V(k + 4)} : k \in curves}
                    \cup UNION {{V(k), V(k) + V(k + 2)} : k \in rects}
        y_coords == {V(k + 1) : k \in points}
                    \cup UNION {{V(k + 1), V(k + 3), V(k + 5)} : k \in curves}
                    \cup UNION {{V(k + 1), V(k + 1) + V(k + 3)} : k \in rects}
    IN  IF x_coords = {} THEN << >>
        ELSE <<SetMin(x_coords), SetMin(y_coords),
               SetMax(x_coords), SetMax(y_coords)>>

\* the "no geometry" result (None)
NoBBox == << >>

\* float() raises ValueError on an operand of one of the matches
get_bounding_box_raises(snippet) ==
    LET toks == Tokens(snippet)
        Bad(n, ops) ==
            \E k \in OperandMatches(toks, n, ops) :
                \E j \in 0..(n - 1) : toks[k + j] \notin FloatTokens
    IN  Bad(2, {"m", "l"}) \/ Bad(6, {"c", "cm", "cs"}) \/ Bad(4, {"re"})

\* ------------------------------------------------------------------------
\* parse_transform_matrix, is_shape_closed
\* ------------------------------------------------------------------------
IdentityMatrix == <<1, 0, 0, 1, 0, 0>>

parse_transform_matrix(matrix_str) ==
    LET nums == SelectSeq(Tokens(matrix_str), LAMBDA t : t \in NumTokens)
        n == Len(nums)
    IN  IF n >= 6 THEN [k \in 1..6 |-> NumVal(nums[n - 6 + k])]
        ELSE IdentityMatrix

\* float() raises ValueError on one of the last six numbers
parse_transform_matrix_raises(matrix_str) ==
    LET nums == SelectSeq(Tokens(matrix_str), LAMBDA t : t \in NumTokens)
        n == Len(nums)
    IN  n >= 6 /\ \E k \in 1..6 : nums[n - 6 + k] \notin FloatTokens

\* the painters without the starred ones
closing_painters_unstarred == {"s", "f", "F", "b", "B"}

closing_painters == {"s", "f", "F", "f*", "b", "B", "b*", "B*"}

is_shape_closed(snippet) ==
    LET tokens == Range(Tokens(snippet))
    IN  IF "h" \in tokens THEN TRUE
        ELSE IF "re" \in tokens THEN TRUE
        ELSE IF tokens \cap closing_painters # {} THEN TRUE
        ELSE FALSE

\* ------------------------------------------------------------------------
\* The corpus
\* ------------------------------------------------------------------------
PrefixI == <<"q", " ", "1", " ", "0", " ", "0", " ", "1", " ", "0", " ", "0",
             " ", "cm", " ">>

PrefixT == <<"q", " ", "1", " ", "0", " ", "0", " ", "1", " ", "10", " ", "5",
             " ", "cm", "\n">>

BodyRect == <<"0", " ", "0", " ", "10", " ", "10", " ", "re", " ", "f">>

\* the same drawing with different whitespace
BodyRectWs == <<"0", " ", "0", " ", "10", " ", "10", " ", "re", "\n", " ", "f">>

\* no coordinates at all
BodyNoGeo == <<"h", " ", "S">>

BodyLine == <<"0", " ", "0", " ", "m", " ", "5", " ", "1", " ", "l", " ", "S">>

\* the (prefix, body) pairs the fragment pattern can match in a stream
Fragments ==
    {[prefix |-> PrefixI, snippet |-> BodyRect],
     [prefix |-> PrefixT, snippet |-> BodyRectWs],
     [prefix |-> PrefixI, snippet |-> BodyNoGeo],
     [prefix |-> PrefixT, snippet |-> BodyLine]}

\* the text the third group of the pattern matches
Suffix == <<" ", "Q">>

\* one match of the pattern, with the page and the stream it was found in;
\* commented tells whether the matched text lies in a comment line
Occurrences ==
    [page : 1..MaxPages, stream : 1..MaxStreams, frag : Fragments,
     commented : {FALSE}]

Before(o1, o2) ==
    \/ o1.page < o2.page
    \/ o1.page = o2.page /\ o1.stream <= o2.stream

\* every match of every stream of every page, in document order
Corpora ==
    {c \in UNION {[1..n -> Occurrences] : n \in 0..MaxFrags} :
        \A k \in 1..(Len(c) - 1) : Before(c[k], c[k + 1])}

VARIABLES
    corpus,            \* reader.pages, as the matches of all streams
    pc,                \* position of main()
    idx,               \* number of matches the current pass has handled
    snippet_counts,    \* insertion-ordered dict norm -> count
    snippet_raw_map,   \* dict norm -> first raw snippet
    global_registry,   \* insertion-ordered dict norm -> meta
    json_instances,
    instance_counter,
    bbox_only_mode,    \* args.bbox_only
    last_out,          \* the text replacement_handler returned last
    pdf_written,       \* the output PDF exists
    json_file,         \* the content of the output JSON, << >> if none
    run,               \* 1 in the first run of main(), 2 in the second
    first_run,         \* the registry and the output JSON of the first run
    \* SpecCompose
    m1, m2, pt,        \* the operands
    composed,          \* the results
    \* SpecTransform
    contents,          \* page.read_contents(), as a sequence of elements
    xpc,
    global_matrix,     \* the value get_global_transform returns
    \* SpecCrop
    doc,               \* the pages: contents, cropbox, rotation
    cpc,
    ci,                \* number of instances the loop has taken
    count,
    skipped,
    page_transforms,   \* dict page_num -> matrix, as a set of entries
    last,              \* the values computed by the last iteration
    files,             \* the images written
    \* SpecMark
    mpc,
    box_commands,      \* the boxes appended to the stream
    \* SpecStages
    page_text_blocks,  \* the text blocks of each page of the PDF
    step1_json,        \* the JSON written by Step 1
    stage_input,       \* the JSON the stage run last has loaded
    data,              \* the JSON the stage run last has saved
    stages             \* the number of stages run so far

pipeVars == <<corpus, pc, idx, snippet_counts, snippet_raw_map,
              global_registry, json_instances, instance_counter,
              bbox_only_mode, last_out, pdf_written, json_file, run,
              first_run>>

algVars == <<m1, m2, pt, composed>>

xfVars == <<contents, xpc, global_matrix>>

cropVars == <<doc, cpc, ci, count, skipped, page_transforms, last, files>>

markVars == <<mpc, box_commands>>

stageVars == <<page_text_blocks, step1_json, stage_input, data, stages>>

vars == <<pipeVars, algVars, xfVars, cropVars, markVars, stageVars>>

\* the variables of a program that the specification does not run
PipeIdle ==
    /\ corpus = << >>
    /\ pc = "idle"
    /\ idx = 0
    /\ snippet_counts = << >>
    /\ snippet_raw_map = << >>
    /\ global_registry = << >>
    /\ json_instances = << >>
    /\ instance_counter = 1
    /\ bbox_only_mode = FALSE
    /\ last_out = << >>
    /\ pdf_written = FALSE
    /\ json_file = << >>
    /\ run = 1
    /\ first_run = << >>

AlgIdle ==
    /\ m1 = << >>
    /\ m2 = << >>
    /\ pt = << >>
    /\ composed = << >>

XfIdle ==
    /\ contents = << >>
    /\ xpc = "idle"
    /\ global_matrix = << >>

MarkIdle ==
    /\ mpc = "idle"
    /\ box_commands = << >>

StageIdle ==
    /\ page_text_blocks = << >>
    /\ step1_json = << >>
    /\ stage_input = << >>
    /\ data = << >>
    /\ stages = 0

CropIdle ==
    /\ doc = << >>
    /\ cpc = "idle"
    /\ ci = 0
    /\ count = 0
    /\ skipped = 0
    /\ page_transforms = {}
    /\ last = << >>
    /\ files = << >>

\* ------------------------------------------------------------------------
\* Insertion-ordered dictionaries as sequences of entries
\* ------------------------------------------------------------------------
Keys(d) == {d[k].norm : k \in DOMAIN d}

Entry(d, norm) == d[CHOOSE k \in DOMAIN d : d[k].norm = norm]

\* ------------------------------------------------------------------------
\* main: opening the input
\* ------------------------------------------------------------------------
\* the state in which main() starts on the document holding the matches c
Start(c) ==
    /\ corpus = c
    /\ pc = "open"
    /\ idx = 0
    /\ snippet_counts = << >>
    /\ snippet_raw_map = << >>
    /\ global_registry = << >>
    /\ json_instances = << >>
    /\ instance_counter = 1
    /\ bbox_only_mode = FALSE
    /\ last_out = << >>
    /\ pdf_written = FALSE
    /\ json_file = << >>

OthersIdle ==
    /\ AlgIdle
    /\ XfIdle
    /\ CropIdle
    /\ MarkIdle
    /\ StageIdle

Init ==
    /\ \E c \in Corpora : Start(c)
    /\ run = 1
    /\ first_run = << >>
    /\ OthersIdle

\* parse_args and PdfReader(args.input); an exception ends main
OpenInput ==
    /\ pc = "open"
    /\ \E mode \in BOOLEAN, opened \in BOOLEAN :
         /\ bbox_only_mode' = mode
         /\ pc' = IF opened THEN "pass1" ELSE "aborted"
    /\ UNCHANGED <<corpus, idx, snippet_counts, snippet_raw_map,
                   global_registry, json_instances, instance_counter,
                   last_out, pdf_written, json_file, run, first_run>>
    /\ UNCHANGED <<algVars, xfVars, cropVars, markVars, stageVars>>

\* ------------------------------------------------------------------------
\* Pass 1: analyze_global_shapes
\* ------------------------------------------------------------------------
\* a counter that starts again at 1 on every occurrence
IncrementReset(d, norm) ==
    IF norm \in Keys(d)
    THEN [k \in DOMAIN d |->
            IF d[k].norm = norm THEN [d[k] EXCEPT !.count = 1] ELSE d[k]]
    ELSE Append(d, [norm |-> norm, count |-> 1])

\* d[norm] = d.get(norm, 0) + 1
Increment(d, norm) ==
    IF norm \in Keys(d)
    THEN [k \in DOMAIN d |->
            IF d[k].norm = norm THEN [d[k] EXCEPT !.count = @ + 1] ELSE d[k]]
    ELSE Append(d, [norm |-> norm, count |-> 1])

\* one iteration of "for _, snippet, _ in matches"; the pattern is applied
\* to the decoded text as it is, so a match in a comment line is taken too
Pass1Match ==
    /\ pc = "pass1"
    /\ idx < Len(corpus)
    /\ LET snippet == corpus[idx + 1].frag.snippet
           norm == normalize_snippet(snippet)
       IN  /\ snippet_counts' = Increment(snippet_counts, norm)
           /\ snippet_raw_map' =
                IF norm \in Keys(snippet_raw_map) THEN snippet_raw_map
                ELSE Append(snippet_raw_map, [norm |-> norm, raw |-> snippet])
    /\ idx' = idx + 1
    /\ UNCHANGED <<corpus, pc, global_registry, json_instances,
                   instance_counter, bbox_only_mode, last_out, pdf_written,
                   json_file, run, first_run>>
    /\ UNCHANGED <<algVars, xfVars, cropVars, markVars, stageVars>>

\* a filter that keeps singletons as well
RepeatFilterAll(c) == c >= 1

\* [s for s, c in snippet_counts.items() if c > 1]
RepeatFilter(c) == c > 1

repeated_snippets(counts) ==
    LET kept == SelectSeq(counts, LAMBDA e : RepeatFilter(e.count))
    IN  [k \in DOMAIN kept |-> kept[k].norm]

\* generate_distinct_colors(n): the hue of colour i is i / n
generate_distinct_colors(n) == [k \in 1..n |-> k - 1]

\* random.shuffle: any permutation
Shuffles(s) ==
    {[k \in DOMAIN s |-> s[p[k]]] :
        p \in {q \in [DOMAIN s -> DOMAIN s] : Range(q) = DOMAIN s}}

\* the ids are shuffled together with the colours
BuildEntryShuffledIds(counts, raw_map, colors, rep, k) ==
    [norm |-> rep[k],
     id |-> colors[k] + 1,
     count |-> Entry(counts, rep[k]).count,
     color |-> colors[k],
     is_closed |-> is_shape_closed(Entry(raw_map, rep[k]).raw)]

BuildEntry(counts, raw_map, colors, rep, k) ==
    [norm |-> rep[k],
     id |-> k,
     count |-> Entry(counts, rep[k]).count,
     color |-> colors[k],
     is_closed |-> is_shape_closed(Entry(raw_map, rep[k]).raw)]

\* the registry is built as soon as one match has been counted
PageLoopDoneEarly(i, c) == i >= 1 \/ i = Len(c)

\* "for i, page in enumerate(reader.pages)" has taken every match
PageLoopDone(i, c) == i = Len(c)

\* the end of the page loop, the filter and the registry construction
BuildRegistry ==
    /\ pc = "pass1"
    /\ PageLoopDone(idx, corpus)
    /\ LET rep == repeated_snippets(snippet_counts)
       IN  \E colors \in Shuffles(generate_distinct_colors(Len(rep))) :
             global_registry' =
                [k \in DOMAIN rep |->
                    BuildEntry(snippet_counts, snippet_raw_map, colors, rep, k)]
    /\ pc' = "pass2"
    /\ idx' = 0
    /\ UNCHANGED <<corpus, snippet_counts, snippet_raw_map, json_instances,
                   instance_counter, bbox_only_mode, last_out, pdf_written,
                   json_file, run, first_run>>
    /\ UNCHANGED <<algVars, xfVars, cropVars, markVars, stageVars>>

\* ------------------------------------------------------------------------
\* Pass 2: process_and_export
\* ------------------------------------------------------------------------
\* a counter that is never advanced
NextCounterStuck(c) == c

\* instance_counter += 1
NextCounter(c) == c + 1

\* f"{v:.2f}" of a whole number v, in hundredths
Cents(v) == 100 * v

\* the operands of bbox_cmd: the colour and the rectangle grown by pad = 0.5
BBoxCmd(color, bbox) ==
    <<color,
      Cents(bbox[1]) - 50, Cents(bbox[2]) - 50,
      Cents(bbox[3] - bbox[1]) + 100, Cents(bbox[4] - bbox[2]) + 100>>

NoCmd == << >>

\* match.group(0)
Group0(frag) ==
    [prefix |-> frag.prefix, snippet |-> frag.snippet, bbox_cmd |-> NoCmd,
     suffix |-> Suffix]

\* the two rewritten texts
Rewritten(frag, color, bbox, mode) ==
    [prefix |-> frag.prefix,
     snippet |-> IF mode THEN << >> ELSE frag.snippet,
     bbox_cmd |-> BBoxCmd(color, bbox),
     suffix |-> Suffix]

\* an occurrence without geometry still takes an instance id
SkipCounterConsumes(c) == c + 1

\* the value of instance_counter after an occurrence that is not recorded
SkipCounter(c) == c

\* replacement_handler, for one match; a ValueError raised by float() is
\* not caught anywhere and ends main
ReplacementHandler ==
    /\ pc = "pass2"
    /\ idx < Len(corpus)
    /\ LET occ == corpus[idx + 1]
           snippet == occ.frag.snippet
           norm == normalize_snippet(snippet)
       IN  IF norm \notin Keys(global_registry)
           THEN /\ last_out' = Group0(occ.frag)
                /\ idx' = idx + 1
                /\ UNCHANGED <<pc, json_instances, instance_counter>>
           ELSE IF \/ get_bounding_box_raises(snippet)
                   \/ parse_transform_matrix_raises(occ.frag.prefix)
           THEN /\ pc' = "value_error"
                /\ UNCHANGED <<idx, json_instances, instance_counter,
                               last_out>>
           ELSE LET meta == Entry(global_registry, norm)
                    bbox == get_bounding_box(snippet)
                    matrix == parse_transform_matrix(occ.frag.prefix)
                IN  IF bbox # NoBBox
                    THEN /\ json_instances' =
                              Append(json_instances,
                                     [instance_id |-> instance_counter,
                                      page |-> occ.page,
                                      shape_id |-> meta.id,
                                      bbox_local |-> bbox,
                                      transform_matrix |-> matrix,
                                      snippet_raw |-> snippet])
                         /\ instance_counter' = NextCounter(instance_counter)
                         /\ last_out' = Rewritten(occ.frag, meta.color, bbox,
                                                  bbox_only_mode)
                         /\ idx' = idx + 1
                         /\ UNCHANGED pc
                    ELSE /\ last_out' = Group0(occ.frag)
                         /\ instance_counter' = SkipCounter(instance_counter)
                         /\ idx' = idx + 1
                         /\ UNCHANGED <<pc, json_instances>>
    /\ UNCHANGED <<corpus, snippet_counts, snippet_raw_map, global_registry,
                   bbox_only_mode, pdf_written, json_file, run, first_run>>
    /\ UNCHANGED <<algVars, xfVars, cropVars, markVars, stageVars>>

\* return json_instances
Pass2Return ==
    /\ pc = "pass2"
    /\ idx = Len(corpus)
    /\ pc' = "done"
    /\ UNCHANGED <<corpus, idx, snippet_counts, snippet_raw_map,
                   global_registry, json_instances, instance_counter,
                   bbox_only_mode, last_out, pdf_written, json_file, run,
                   first_run>>
    /\ UNCHANGED <<algVars, xfVars, cropVars, markVars, stageVars>>

\* ------------------------------------------------------------------------
\* main: writing the outputs
\* ------------------------------------------------------------------------
\* with open(args.output, 'wb') as f: writer.write(f)
WritePdf ==
    /\ pc = "done"
    /\ \E creatable \in BOOLEAN :
         IF creatable
         THEN /\ pdf_written' = TRUE
              /\ pc' = "write_json"
         ELSE /\ pc' = "io_error"
              /\ UNCHANGED pdf_written
    /\ UNCHANGED <<corpus, idx, snippet_counts, snippet_raw_map,
                   global_registry, json_instances, instance_counter,
                   bbox_only_mode, last_out, json_file, run, first_run>>
    /\ UNCHANGED <<algVars, xfVars, cropVars, markVars, stageVars>>

Digits == <<"0", "1", "2", "3", "4", "5", "6", "7", "8", "9">>

RECURSIVE Str(_)
\* str(n) of a natural number, as its sequence of characters
Str(n) ==
    IF n < 10 THEN <<Digits[n + 1]>>
    ELSE Append(Str(n \div 10), Digits[(n % 10) + 1])

\* the dict shape_definitions, in the order of the registry
ShapeDefinitions(registry) ==
    [k \in DOMAIN registry |->
        [key |-> Str(registry[k].id),
         semantic_label |-> "",
         count |-> registry[k].count,
         color_rgb |-> registry[k].color,
         is_closed |-> registry[k].is_closed]]

FinalJson(registry, instances) ==
    [metadata |-> [total_instances |-> Len(instances),
                   unique_shapes |->
                       Cardinality({Str(registry[k].id) :
                                      k \in DOMAIN registry})],
     shape_definitions |-> ShapeDefinitions(registry),
     instances |-> instances]

\* with open(args.json, 'w') as f: json.dump(final_json, f, indent=2)
WriteJson ==
    /\ pc = "write_json"
    /\ \E creatable \in BOOLEAN :
         IF creatable
         THEN /\ json_file' = FinalJson(global_registry, json_instances)
              /\ pc' = "end"
         ELSE /\ pc' = "io_error"
              /\ UNCHANGED json_file
    /\ UNCHANGED <<corpus, idx, snippet_counts, snippet_raw_map,
                   global_registry, json_instances, instance_counter,
                   bbox_only_mode, last_out, pdf_written, run, first_run>>
    /\ UNCHANGED <<algVars, xfVars, cropVars, markVars, stageVars>>

Next ==
    \/ OpenInput
    \/ Pass1Match
    \/ BuildRegistry
    \/ ReplacementHandler
    \/ Pass2Return
    \/ WritePdf
    \/ WriteJson

Spec == Init /\ [][Next]_vars

\* ------------------------------------------------------------------------
\* SpecRerun: main run twice on the same input
\* ------------------------------------------------------------------------
MaxRerunFrags == 4

\* the matches of a document of one page with one stream
RerunCorpora ==
    LET first_stream == {o \in Occurrences : o.page = 1 /\ o.stream = 1}
    IN  UNION {[1..n -> first_stream] : n \in 0..MaxRerunFrags}

InitRerun ==
    /\ \E c \in RerunCorpora : Start(c)
    /\ run = 1
    /\ first_run = << >>
    /\ OthersIdle

\* main is started again on the same document
Rerun ==
    /\ pc = "end"
    /\ run = 1
    /\ run' = 2
    /\ first_run' = [registry |-> global_registry, json |-> json_file]
    /\ pc' = "open"
    /\ idx' = 0
    /\ snippet_counts' = << >>
    /\ snippet_raw_map' = << >>
    /\ global_registry' = << >>
    /\ json_instances' = << >>
    /\ instance_counter' = 1
    /\ bbox_only_mode' = FALSE
    /\ last_out' = << >>
    /\ pdf_written' = FALSE
    /\ json_file' = << >>
    /\ UNCHANGED corpus
    /\ UNCHANGED <<algVars, xfVars, cropVars, markVars, stageVars>>

NextRerun == Next \/ Rerun

SpecRerun == InitRerun /\ [][NextRerun]_vars

\* ------------------------------------------------------------------------
\* SpecClosed: main on documents of open and closed paths
\* ------------------------------------------------------------------------
MaxClosedKinds == 2

\* the path-painting operators of PDF
PaintOps == {"S", "n", "s", "f", "F", "f*", "b", "B", "b*", "B*"}

OpenPath == <<"0", " ", "0", " ", "m", " ", "5", " ", "1", " ", "l">>

RectPath == <<"0", " ", "0", " ", "10", " ", "10", " ", "re">>

\* an open path, a path closed by h and a rectangle, under every painter
PaintedBodies ==
    {OpenPath \o <<" ", op>> : op \in PaintOps}
        \cup {OpenPath \o <<" ", "h", " ", op>> : op \in {"S", "n"}}
        \cup {RectPath \o <<"\n", op>> : op \in {"S", "n"}}

\* documents of one page in which every body is drawn twice
ClosedCorpora ==
    LET occ(b) == [page |-> 1, stream |-> 1,
                   frag |-> [prefix |-> PrefixI, snippet |-> b],
                   commented |-> FALSE]
        kinds == UNION {[1..n -> PaintedBodies] : n \in 1..MaxClosedKinds}
    IN  {[k \in 1..(2 * Len(s)) |-> occ(s[((k - 1) % Len(s)) + 1])] :
            s \in kinds}

InitClosed ==
    /\ \E c \in ClosedCorpora : Start(c)
    /\ run = 1
    /\ first_run = << >>
    /\ OthersIdle

SpecClosed == InitClosed /\ [][Next]_vars

\* ------------------------------------------------------------------------
\* SpecMalformed: main on documents with operands that are not numbers
\* ------------------------------------------------------------------------
MaxMalformedFrags == 3

\* a transform whose fifth operand is "-"
PrefixDash == <<"q", " ", "1", " ", "0", " ", "0", " ", "1", " ", "-", " ",
                "0", " ", "cm", " ">>

\* a line whose end point has the x coordinate "1.2.3"
BodyDots == <<"0", " ", "0", " ", "m", " ", "1.2.3", " ", "5", " ", "l", " ",
              "S">>

MalformedFragments ==
    {[prefix |-> PrefixI, snippet |-> BodyRect],
     [prefix |-> PrefixDash, snippet |-> BodyLine],
     [prefix |-> PrefixT, snippet |-> BodyDots]}

\* the matches of documents with one stream per page, in document order
MalformedCorpora ==
    LET occs == [page : 1..MaxPages, stream : {1}, frag : MalformedFragments,
                 commented : {FALSE}]
    IN  {c \in UNION {[1..n -> occs] : n \in 0..MaxMalformedFrags} :
            \A k \in 1..(Len(c) - 1) : Before(c[k], c[k + 1])}

InitMalformed ==
    /\ \E c \in MalformedCorpora : Start(c)
    /\ run = 1
    /\ first_run = << >>
    /\ OthersIdle

SpecMalformed == InitMalformed /\ [][Next]_vars

\* ------------------------------------------------------------------------
\* SpecComments: main on documents with fragments in comment lines
\* ------------------------------------------------------------------------
MaxCommentFrags == 3

\* the matches of a one-stream document; a commented match is the text of a
\* fragment written after a "%" on one line
CommentCorpora ==
    LET occs == [page : {1}, stream : {1},
                 frag : {[prefix |-> PrefixI, snippet |-> BodyRect],
                         [prefix |-> PrefixT, snippet |-> BodyLine]},
                 commented : BOOLEAN]
    IN  UNION {[1..n -> occs] : n \in 0..MaxCommentFrags}

InitComments ==
    /\ \E c \in CommentCorpora : Start(c)
    /\ run = 1
    /\ first_run = << >>
    /\ OthersIdle

SpecComments == InitComments /\ [][Next]_vars

\* ------------------------------------------------------------------------
\* crop_shapes.py: matrices
\* ------------------------------------------------------------------------
\* A matrix is <<a, b, c, d, e, f>>. Reals are modelled by integers, on
\* which the arithmetic of the code is exact.

\* a composition that adds the translations without transforming them
mult_matrix_additive(a, b) ==
    <<a[1] * b[1] + a[2] * b[3],  a[1] * b[2] + a[2] * b[4],
      a[3] * b[1] + a[4] * b[3],  a[3] * b[2] + a[4] * b[4],
      a[5] + b[5],                a[6] + b[6]>>

mult_matrix(a, b) ==
    <<a[1] * b[1] + a[2] * b[3],            a[1] * b[2] + a[2] * b[4],
      a[3] * b[1] + a[4] * b[3],            a[3] * b[2] + a[4] * b[4],
      a[5] * b[1] + a[6] * b[3] + b[5],     a[5] * b[2] + a[6] * b[4] + b[6]>>

\* p is the point <<x, y>>
transform_point(p, matrix) ==
    <<matrix[1] * p[1] + matrix[3] * p[2] + matrix[5],
      matrix[2] * p[1] + matrix[4] * p[2] + matrix[6]>>

\* rotate by 90 degrees
Rot90 == <<0, 1, -1, 0, 0, 0>>

\* translate by (10, 0)
Trans10 == <<1, 0, 0, 1, 10, 0>>

\* scale and shear, with a translation
Shear == <<2, 0, 1, 1, 0, 5>>

\* zero determinant
Singular == <<1, 2, 2, 4, 3, 0>>

ComposeMatrices == {IdentityMatrix, Rot90, Trans10, Shear, Singular}

ComposePoints == {<<0, 0>>, <<1, 0>>, <<0, 1>>, <<3, -2>>}

\* ------------------------------------------------------------------------
\* SpecCompose: mult_matrix in both orders, on drawn operands
\* ------------------------------------------------------------------------
InitCompose ==
    /\ m1 \in ComposeMatrices
    /\ m2 \in ComposeMatrices
    /\ pt \in ComposePoints
    /\ composed = << >>
    /\ PipeIdle
    /\ XfIdle
    /\ CropIdle
    /\ MarkIdle
    /\ StageIdle

Compose ==
    /\ m1 # << >>
    /\ composed = << >>
    /\ composed' = [fwd |-> mult_matrix(m1, m2),
                    rev |-> mult_matrix(m2, m1),
                    fwd_pt |-> transform_point(pt, mult_matrix(m1, m2)),
                    rev_pt |-> transform_point(pt, mult_matrix(m2, m1))]
    /\ UNCHANGED <<m1, m2, pt>>
    /\ UNCHANGED <<pipeVars, xfVars, cropVars, markVars, stageVars>>

NextCompose == Compose

SpecCompose == InitCompose /\ [][NextCompose]_vars

\* ------------------------------------------------------------------------
\* get_global_transform
\* ------------------------------------------------------------------------
\* The content stream is a sequence of elements:
\*   cm       six operands and the transform operator
\*   q BT Do  a region-boundary token
\*   %q %cm   a comment line holding a boundary token / a transform
\*   filler   HeaderLimit characters of path operators
\*   pad      path operators that end 8 characters before HeaderLimit
HeaderLimit == 1000

BoundaryKinds == {"q", "BT", "Do"}

CommentKinds == {"%q", "%cm"}

StreamMatrices == {Rot90, Trans10, Shear}

Elements ==
    [kind : {"cm"}, m : StreamMatrices]
    \cup [kind : BoundaryKinds \cup {"%q", "filler", "pad"},
          m : {IdentityMatrix}]
    \cup [kind : {"%cm"}, m : {Trans10}]

Streams == UNION {[1..n -> Elements] : n \in 0..MaxElems}

\* re.sub(r'%.*', '', text)
StripComments(text) == SelectSeq(text, LAMBDA e : e.kind \notin CommentKinds)

\* number of characters of an element
ElemLen(e) ==
    IF e.kind = "filler" THEN HeaderLimit
    ELSE IF e.kind = "pad" THEN HeaderLimit - 8
    ELSE 16

RECURSIVE TextLen(_)
TextLen(text) ==
    IF text = << >> THEN 0 ELSE ElemLen(Head(text)) + TextLen(Tail(text))

\* the whole text, whatever it holds
HeaderUncut(text) == text

\* text[:limit_index], limit_index being the start of the first boundary
\* token, or HeaderLimit when there is none; an element cut by the limit
\* holds no complete transform
Header(text) ==
    LET bounds == {k \in DOMAIN text : text[k].kind \in BoundaryKinds}
    IN  IF bounds # {}
        THEN SubSeq(text, 1, SetMin(bounds) - 1)
        ELSE SelectSeq([k \in DOMAIN text |->
                          IF TextLen(SubSeq(text, 1, k)) <= HeaderLimit
                          THEN text[k]
                          ELSE [kind |-> "cut", m |-> IdentityMatrix]],
                       LAMBDA e : e.kind # "cut")

\* re.findall(... cm, header), as lists of floats
CmMatches(header) ==
    LET cms == SelectSeq(header, LAMBDA e : e.kind = "cm")
    IN  [k \in DOMAIN cms |-> cms[k].m]

\* global_matrix = mult_matrix(global_matrix, args)
AccumulatePost(args, acc) == mult_matrix(acc, args)

\* global_matrix = mult_matrix(args, global_matrix)
Accumulate(args, acc) == mult_matrix(args, acc)

RECURSIVE FoldMatches(_, _)
\* the loop "for match in cm_matches", from the accumulated matrix acc
FoldMatches(cm_matches, acc) ==
    IF cm_matches = << >> THEN acc
    ELSE FoldMatches(Tail(cm_matches), Accumulate(Head(cm_matches), acc))

get_global_transform(page_contents) ==
    LET text == StripComments(page_contents)
        cm_matches == CmMatches(Header(text))
    IN  IF cm_matches = << >> THEN IdentityMatrix
        ELSE FoldMatches(cm_matches, IdentityMatrix)

InitTransform ==
    /\ contents \in Streams
    /\ xpc = "call"
    /\ global_matrix = << >>
    /\ PipeIdle
    /\ AlgIdle
    /\ CropIdle
    /\ MarkIdle
    /\ StageIdle

GetGlobalTransform ==
    /\ xpc = "call"
    /\ global_matrix' = get_global_transform(contents)
    /\ xpc' = "returned"
    /\ UNCHANGED contents
    /\ UNCHANGED <<pipeVars, algVars, cropVars, markVars, stageVars>>

NextTransform == GetGlobalTransform

SpecTransform == InitTransform /\ [][NextTransform]_vars

\* ------------------------------------------------------------------------
\* crop_shapes: boxes
\* ------------------------------------------------------------------------
\* A box or rectangle is <<x0, y0, x1, y1>>.
Min2(a, b) == IF a <= b THEN a ELSE b

Max2(a, b) == IF a >= b THEN a ELSE b

\* (min(xs), min(ys), max(xs), max(ys)) of a set of points
BoundsOf(points) ==
    <<SetMin({q[1] : q \in points}), SetMin({q[2] : q \in points}),
      SetMax({q[1] : q \in points}), SetMax({q[2] : q \in points})>>

Corners(box) ==
    {<<box[1], box[2]>>, <<box[3], box[2]>>,
     <<box[3], box[4]>>, <<box[1], box[4]>>}

\* only the two diagonal corners are transformed
get_raw_aabb_diagonal(instance) ==
    BoundsOf({transform_point(<<instance.bbox_local[1],
                                instance.bbox_local[2]>>,
                              instance.transform_matrix),
              transform_point(<<instance.bbox_local[3],
                                instance.bbox_local[4]>>,
                              instance.transform_matrix)})

get_raw_aabb(instance) ==
    BoundsOf({transform_point(q, instance.transform_matrix) :
                q \in Corners(instance.bbox_local)})

\* step 3 of the loop: the corners of the raw box under the global matrix
PageSpaceBox(raw, matrix) ==
    BoundsOf({transform_point(q, matrix) : q \in Corners(raw)})

\* the vertical offset is taken from the bottom edge, without a flip
DeviceRectNoFlip(pdf, cropbox) ==
    <<pdf[1] - cropbox[1], pdf[2] - cropbox[2],
      pdf[3] - cropbox[1], pdf[4] - cropbox[2]>>

\* step 4: <<rel_x1, rel_y1, rel_x2, rel_y2>>
DeviceRect(pdf, cropbox) ==
    <<pdf[1] - cropbox[1], cropbox[4] - pdf[4],
      pdf[3] - cropbox[1], cropbox[4] - pdf[2]>>

\* padding=10, the default of crop_shapes
padding == U(10)

\* step 5: fitz.Rect(x_min, y_min, x_max, y_max)
ClipRect(rel) ==
    <<rel[1] - padding, rel[2] - padding, rel[3] + padding, rel[4] + padding>>

\* page.rect of a page whose rotation is 0: the crop-box moved to the origin
PageRect(cropbox) == <<0, 0, cropbox[3] - cropbox[1], cropbox[4] - cropbox[2]>>

\* fitz: r1 & r2
Intersect(r1, r2) ==
    <<Max2(r1[1], r2[1]), Max2(r1[2], r2[2]),
      Min2(r1[3], r2[3]), Min2(r1[4], r2[4])>>

\* fitz: Rect.is_empty
IsEmpty(r) == r[1] >= r[3] \/ r[2] >= r[4]

\* fitz: Rect.width, Rect.height
Width(r) == Max2(r[3] - r[1], 0)

Height(r) == Max2(r[4] - r[2], 0)

\* only emptiness is tested
DegenerateEmptyOnly(r) == IsEmpty(r)

\* final_rect.is_empty or final_rect.width < 1 or final_rect.height < 1
Degenerate(r) == IsEmpty(r) \/ Width(r) < U(1) \/ Height(r) < U(1)

\* ------------------------------------------------------------------------
\* SpecCrop: the inputs
\* ------------------------------------------------------------------------
\* sqrt(2) times the rotation by 45 degrees
Diag45 == <<1, 1, -1, 1, 0, 0>>

Scale2 == <<2, 0, 0, 2, 0, 0>>

TransFar == <<1, 0, 0, 1, U(500), 0>>

Collapse == <<0, 0, 0, 0, U(20), U(50)>>

CropMatrices == {IdentityMatrix, Diag45, TransFar, Collapse}

UnitBox == <<0, 0, U(1), U(1)>>

MidBox == <<U(10), U(40), U(30), U(60)>>

LocalBoxes == {UnitBox, MidBox}

Cm(m) == [kind |-> "cm", m |-> m]

Boundary(k) == [kind |-> k, m |-> IdentityMatrix]

PageKinds ==
    {[contents |-> << >>,
      cropbox |-> <<0, 0, U(100), U(100)>>,
      rotation |-> 0],
     [contents |-> <<Cm(Diag45), Boundary("q"), Cm(Scale2)>>,
      cropbox |-> <<U(10) + Half, -U(50), U(110) + Half, U(50)>>,
      rotation |-> 90],
     [contents |-> <<Cm(Scale2)>>,
      cropbox |-> <<U(5), U(10), U(105), U(110)>>,
      rotation |-> 180]}

Documents == UNION {[1..n -> PageKinds] : n \in 1..MaxDocPages}

\* the entries of data['instances']
Instances ==
    [page : 0..(MaxDocPages + 1),
     bbox_local : LocalBoxes,
     transform_matrix : CropMatrices]

\* doc[i] for an index below len(doc): negative indices count from the end
PageAt(d, i) == d[(i % Len(d)) + 1]

DictKeys(d) == {e.key : e \in d}

DictGet(d, k) == (CHOOSE e \in d : e.key = k).val

\* ------------------------------------------------------------------------
\* SpecCrop: crop_shapes
\* ------------------------------------------------------------------------
InitCrop ==
    /\ doc \in Documents
    /\ cpc = "loop"
    /\ ci = 0
    /\ count = 0
    /\ skipped = 0
    /\ page_transforms = {}
    /\ last = << >>
    /\ files = << >>
    /\ PipeIdle
    /\ AlgIdle
    /\ XfIdle
    /\ MarkIdle
    /\ StageIdle

NotProcessed(instance) ==
    [outcome |-> "out_of_range", instance |-> instance, global |-> << >>,
     raw |-> << >>, pdf |-> << >>, cropbox |-> << >>, rel |-> << >>,
     clip |-> << >>, final |-> << >>, rotation |-> 0]

\* if original_rot != 0: page.set_rotation(0)
NormalizeRotation(original_rot) == IF original_rot # 0 THEN 0 ELSE original_rot

\* the rotation is left as the computation set it
RestoreRotationForgotten(original_rot, current) == current

\* if original_rot != 0: page.set_rotation(original_rot)
RestoreRotation(original_rot, current) ==
    IF original_rot # 0 THEN original_rot ELSE current

\* one iteration of "for i, instance in enumerate(data['instances'])"
CropInstance ==
    /\ cpc = "loop"
    /\ ci < MaxInst
    /\ \E instance \in Instances :
         LET page_num == instance.page
         IN  IF page_num > Len(doc)
             THEN /\ last' = NotProcessed(instance)
                  /\ UNCHANGED <<doc, count, skipped, page_transforms, files>>
             ELSE
               LET pidx == ((page_num - 1) % Len(doc)) + 1
                   page == PageAt(doc, page_num - 1)
                   transforms ==
                       IF page_num \in DictKeys(page_transforms)
                       THEN page_transforms
                       ELSE page_transforms \cup
                              {[key |-> page_num,
                                val |-> get_global_transform(page.contents)]}
                   matrix == DictGet(transforms, page_num)
                   raw == get_raw_aabb(instance)
                   pdf == PageSpaceBox(raw, matrix)
                   original_rot == page.rotation
                   normalized == NormalizeRotation(original_rot)
                   cropbox == page.cropbox
                   rel == DeviceRect(pdf, cropbox)
                   clip_rect == ClipRect(rel)
                   final_rect == Intersect(clip_rect, PageRect(cropbox))
                   \* the document after page.set_rotation on either path
                   restored ==
                       [doc EXCEPT ![pidx].rotation =
                                      RestoreRotation(original_rot, normalized)]
                   result(outcome) ==
                       [outcome |-> outcome, instance |-> instance,
                        global |-> matrix, raw |-> raw, pdf |-> pdf,
                        cropbox |-> cropbox, rel |-> rel, clip |-> clip_rect,
                        final |-> final_rect, rotation |-> normalized]
               IN  /\ page_transforms' = transforms
                   /\ IF Degenerate(final_rect)
                      THEN /\ skipped' = skipped + 1
                           /\ doc' = restored
                           /\ last' = result("skipped")
                           /\ UNCHANGED <<count, files>>
                      ELSE /\ files' = Append(files,
                                              [inst |-> ci, page |-> pidx,
                                               clip |-> final_rect])
                           /\ doc' = restored
                           /\ count' = count + 1
                           /\ last' = result("emitted")
                           /\ UNCHANGED skipped
    /\ ci' = ci + 1
    /\ UNCHANGED cpc
    /\ UNCHANGED <<pipeVars, algVars, xfVars, markVars, stageVars>>

\* the end of data['instances']
CropReturn ==
    /\ cpc = "loop"
    /\ cpc' = "done"
    /\ UNCHANGED <<doc, ci, count, skipped, page_transforms, last, files>>
    /\ UNCHANGED <<pipeVars, algVars, xfVars, markVars, stageVars>>

NextCrop ==
    \/ CropInstance
    \/ CropReturn

SpecCrop == InitCrop /\ [][NextCrop]_vars

\* ------------------------------------------------------------------------
\* SpecMark: generate_marked_pdf (detect_markers.py)
\* ------------------------------------------------------------------------
\* pad = 0.5
pad == Half

\* f"{v:.2f}": the value in hundredths of a unit
Format2(v) == (v * 100) \div Scale

MarkInstances ==
    [bbox_local : LocalBoxes,
     transform_matrix : CropMatrices,
     is_predicted_annotation_marker : BOOLEAN]

InitMark ==
    /\ mpc = "loop"
    /\ box_commands = << >>
    /\ StageIdle
    /\ PipeIdle
    /\ AlgIdle
    /\ XfIdle
    /\ CropIdle

\* one iteration of "for instance in page_instances"
MarkInstance ==
    /\ mpc = "loop"
    /\ Len(box_commands) < MaxInst
    /\ \E instance \in MarkInstances :
         LET bbox == instance.bbox_local
             matrix == instance.transform_matrix
             c1 == transform_point(<<bbox[1] - pad, bbox[2] - pad>>, matrix)
             c2 == transform_point(<<bbox[3] + pad, bbox[4] + pad>>, matrix)
             x_min == Min2(c1[1], c2[1])
             x_max == Max2(c1[1], c2[1])
             y_min == Min2(c1[2], c2[2])
             y_max == Max2(c1[2], c2[2])
             width == x_max - x_min
             height == y_max - y_min
         IN  box_commands' =
               Append(box_commands,
                      [instance |-> instance,
                       color |-> IF instance.is_predicted_annotation_marker
                                 THEN "red" ELSE "blue",
                       re |-> <<Format2(x_min), Format2(y_min),
                                Format2(width), Format2(height)>>])
    /\ UNCHANGED mpc
    /\ UNCHANGED <<pipeVars, algVars, xfVars, cropVars, stageVars>>

\* modified_text = text + box_commands
MarkAppend ==
    /\ mpc = "loop"
    /\ mpc' = "done"
    /\ UNCHANGED box_commands
    /\ UNCHANGED <<pipeVars, algVars, xfVars, cropVars, stageVars>>

NextMark ==
    \/ MarkInstance
    \/ MarkAppend

SpecMark == InitMark /\ [][NextMark]_vars

\* ------------------------------------------------------------------------
\* Properties of the matrix composition
\* ------------------------------------------------------------------------
RECURSIVE ApplyLastFirst(_, _)
\* the point obtained from p by applying the last matrix of ms first and
\* the first matrix of ms last
ApplyLastFirst(p, ms) ==
    IF ms = << >> THEN p
    ELSE transform_point(ApplyLastFirst(p, Tail(ms)), Head(ms))

\* the transforms of the header of the comment-free stream: everything
\* before the first boundary token
HeaderTransforms ==
    LET text == StripComments(contents)
    IN  CmMatches(Header(text))

\* C4: the matrix get_global_transform returns is the identity for a header
\* without transforms, and for transforms M1..Mn in encounter order it maps
\* every point as Mn applied first, then Mn-1, ..., and M1 last (each new
\* transform premultiplies the accumulated matrix).
C4_PremultiplyInEncounterOrder ==
    xpc = "returned" =>
        /\ HeaderTransforms = << >> => global_matrix = IdentityMatrix
        /\ Len(HeaderTransforms) = 1 => global_matrix = HeaderTransforms[1]
        /\ \A p \in ComposePoints :
              transform_point(p, global_matrix)
                = ApplyLastFirst(p, HeaderTransforms)

\* a header of three transforms, the first two of which do not commute
C4_Witness ==
    /\ xpc = "returned"
    /\ Len(HeaderTransforms) = 3
    /\ mult_matrix(HeaderTransforms[1], HeaderTransforms[2])
         # mult_matrix(HeaderTransforms[2], HeaderTransforms[1])

\* C5: with R = rotate 90 degrees and T = translate by (10, 0), the point
\* (1, 0) is mapped differently by mult_matrix(R, T) and mult_matrix(T, R).
C5_OrderSensitive ==
    (composed # << >> /\ m1 = Rot90 /\ m2 = Trans10 /\ pt = <<1, 0>>) =>
        composed.fwd_pt # composed.rev_pt

C5_Witness ==
    /\ composed # << >>
    /\ m1 = Rot90
    /\ m2 = Trans10
    /\ pt = <<1, 0>>
    /\ composed.fwd_pt = <<10, 1>>
    /\ composed.rev_pt = <<0, 11>>

\* ------------------------------------------------------------------------
\* Properties of crop_shapes (specification SpecCrop)
\* ------------------------------------------------------------------------
\* the last iteration got past the page test
Processed == last # << >> /\ last.outcome \in {"emitted", "skipped"}

Inside(q, box) ==
    /\ box[1] <= q[1]
    /\ q[1] <= box[3]
    /\ box[2] <= q[2]
    /\ q[2] <= box[4]

\* the images of the four corners of the local box of the last instance
\* under the matrix m
CornerImages(m) ==
    LET b == last.instance.bbox_local
    IN  {transform_point(<<b[1], b[2]>>, m), transform_point(<<b[3], b[2]>>, m),
         transform_point(<<b[3], b[4]>>, m), transform_point(<<b[1], b[4]>>, m)}

\* C6: the box get_raw_aabb returns contains the image of each of the four
\* corners of the local box, each of its four bounds is the coordinate of
\* some corner image (so it is their componentwise min and max), and
\* min <= max on both axes, for every matrix including zero-determinant
\* ones. The unit square under sqrt(2) times the rotation by 45 degrees
\* gives the box (-1, 0, 1, 2) of side 2 = sqrt(2) * sqrt(2), which is not
\* the unit box.
C6_RawAabbCoversFourCorners ==
    Processed =>
        LET imgs == CornerImages(last.instance.transform_matrix)
            r == last.raw
        IN  /\ \A q \in imgs : Inside(q, r)
            /\ \E q \in imgs : q[1] = r[1]
            /\ \E q \in imgs : q[2] = r[2]
            /\ \E q \in imgs : q[1] = r[3]
            /\ \E q \in imgs : q[2] = r[4]
            /\ r[1] <= r[3]
            /\ r[2] <= r[4]
            /\ (last.instance.bbox_local = UnitBox
                  /\ last.instance.transform_matrix = Diag45)
                 => /\ r = <<-U(1), 0, U(1), U(2)>>
                    /\ r # UnitBox

\* the unit square under the scaled rotation by 45 degrees
C6_Witness ==
    /\ Processed
    /\ last.instance.bbox_local = UnitBox
    /\ last.instance.transform_matrix = Diag45
    /\ last.raw[3] - last.raw[1] = U(2)

\* C7: the page-space box crop_shapes computes equals the componentwise
\* min/max of the four corners of bbox_local under the single composed
\* matrix mult_matrix(transform_matrix, G).
C7_PageBoxOfComposedMatrix ==
    Processed =>
        last.pdf = BoundsOf(CornerImages(
                       mult_matrix(last.instance.transform_matrix,
                                   last.global)))

\* C9: before padding, left = minx - cropbox.x0, right = maxx - cropbox.x0,
\* top = cropbox.y1 - maxy and bottom = cropbox.y1 - miny, so top <= bottom
\* whenever miny <= maxy; a crop-box top of 100 with miny = 40 and
\* maxy = 60 gives top = 40 and bottom = 60.
C9_DeviceRectFlipsY ==
    Processed =>
        LET left == last.rel[1]
            top == last.rel[2]
            right == last.rel[3]
            bottom == last.rel[4]
        IN  /\ last.rotation = 0
            /\ left = last.pdf[1] - last.cropbox[1]
            /\ right = last.pdf[3] - last.cropbox[1]
            /\ top = last.cropbox[4] - last.pdf[4]
            /\ bottom = last.cropbox[4] - last.pdf[2]
            /\ last.pdf[2] <= last.pdf[4] => top <= bottom
            /\ (last.cropbox[4] = U(100) /\ last.pdf[2] = U(40)
                  /\ last.pdf[4] = U(60))
                 => (top = U(40) /\ bottom = U(60))

\* crop-box top 100, miny 40, maxy 60; and a page whose crop-box does not
\* start at the origin has been mapped as well
C9_Witness ==
    /\ Processed
    /\ last.cropbox[4] = U(100)
    /\ last.pdf[2] = U(40)
    /\ last.pdf[4] = U(60)
    /\ last.rel[2] = U(40)
    /\ last.rel[4] = U(60)
    /\ \E f \in Range(files) : doc[f.page].cropbox[1] # 0

\* the state part of C10
C10_State ==
    /\ Len(files) = count
    /\ \A k \in DOMAIN files :
          LET pr == PageRect(doc[files[k].page].cropbox)
              r == files[k].clip
          IN  /\ pr[1] <= r[1]
              /\ r[3] <= pr[3]
              /\ pr[2] <= r[2]
              /\ r[4] <= pr[4]
              /\ r[3] - r[1] >= U(1)
              /\ r[4] - r[2] >= U(1)
    /\ Processed =>
          LET c == last.clip
              pr == PageRect(last.cropbox)
              x0 == IF c[1] > pr[1] THEN c[1] ELSE pr[1]
              y0 == IF c[2] > pr[2] THEN c[2] ELSE pr[2]
              x1 == IF c[3] < pr[3] THEN c[3] ELSE pr[3]
              y1 == IF c[4] < pr[4] THEN c[4] ELSE pr[4]
              viable == x1 - x0 >= U(1) /\ y1 - y0 >= U(1)
          IN  /\ c = <<last.rel[1] - U(10), last.rel[2] - U(10),
                       last.rel[3] + U(10), last.rel[4] + U(10)>>
              /\ last.outcome = "emitted" <=> viable
              /\ last.outcome = "emitted"
                    => files[Len(files)].clip = <<x0, y0, x1, y1>>

\* the step part of C10
C10_Step ==
    ci' # ci =>
        /\ ci' = ci + 1
        /\ cpc' = "loop"
        /\ last'.outcome = "skipped"
              => (skipped' = skipped + 1 /\ count' = count /\ files' = files)
        /\ last'.outcome = "emitted"
              => (skipped' = skipped /\ count' = count + 1
                    /\ Len(files') = Len(files) + 1)

\* C10: the padded device rectangle is intersected with the page rectangle;
\* an image is written iff the intersection is non-empty and at least 1 unit
\* wide and high, and otherwise the skipped tally is incremented, nothing is
\* written and the loop goes on; every written rectangle lies within the
\* page rectangle.
C10_ClampOrSkip == [](C10_State) /\ [][C10_Step]_vars

\* an instance skipped for a non-empty intersection narrower than 1 unit,
\* after which the loop went on and wrote an image
C10_Witness ==
    /\ ci = 2
    /\ skipped = 1
    /\ count = 1
    /\ last.outcome = "skipped"
    /\ ~IsEmpty(last.final)
    /\ Width(last.final) < U(1)

\* ------------------------------------------------------------------------
\* Properties of generate_marked_pdf (specification SpecMark)
\* ------------------------------------------------------------------------
\* the four corners of the local box grown by 0.5 on every side
PaddedCorners(bbox) ==
    {<<bbox[1] - Half, bbox[2] - Half>>, <<bbox[3] + Half, bbox[2] - Half>>,
     <<bbox[3] + Half, bbox[4] + Half>>, <<bbox[1] - Half, bbox[4] + Half>>}

\* C8: the rectangle (x, y, width, height) drawn for an instance contains
\* the image, under the instance's transform matrix, of each of the four
\* corners of the padded local box.
C8_MarkedBoxCoversFourCorners ==
    \A k \in DOMAIN box_commands :
        LET cmd == box_commands[k]
            x == cmd.re[1]
            y == cmd.re[2]
            w == cmd.re[3]
            h == cmd.re[4]
        IN  \A q \in PaddedCorners(cmd.instance.bbox_local) :
              LET img == transform_point(q, cmd.instance.transform_matrix)
              IN  /\ x * Scale <= img[1] * 100
                  /\ img[1] * 100 <= (x + w) * Scale
                  /\ y * Scale <= img[2] * 100
                  /\ img[2] * 100 <= (y + h) * Scale

\* ------------------------------------------------------------------------
\* SpecStages: detect_markers and run_moondream_pipeline on the Step 1 JSON
\* ------------------------------------------------------------------------
MaxStageInst == 2

MaxStages == 2

\* proximity_threshold
threshold == 100

\* None
NoneValue == << >>

\* d[f] = v on a JSON object
SetField(r, f, v) ==
    [k \in DOMAIN r \cup {f} |-> IF k = f THEN v ELSE r[k]]

\* a deletion that takes snippet_raw along
DelFieldAndSnippet(r, f) == [k \in DOMAIN r \ {f, "snippet_raw"} |-> r[k]]

\* if f in d: del d[f]
DelField(r, f) == [k \in DOMAIN r \ {f} |-> r[k]]

\* the entries of page_text_blocks[1]: a text near the shapes, a block
\* without text operators that is nearer, a text beyond the threshold and
\* a text without Tm / Td
TextNear ==
    [content |-> "(A) Tj", position |-> <<8, 9>>,
     has_text_operators |-> TRUE]

BlockNearer ==
    [content |-> "1 0 0 1 5 6 Tm", position |-> <<5, 6>>,
     has_text_operators |-> FALSE]

TextFar ==
    [content |-> "(B) Tj", position |-> <<205, 5>>,
     has_text_operators |-> TRUE]

TextNoPosition ==
    [content |-> "(C) Tj", position |-> NoneValue,
     has_text_operators |-> TRUE]

BlockLists ==
    {<< >>, <<TextNear>>, <<TextNear, BlockNearer>>, <<TextFar>>,
     <<TextNoPosition, TextNear>>, <<TextFar, TextNear>>}

\* the instances Step 1 can have written, some with the legacy field
StageInstances ==
    LET choices == [page : 1..MaxPages,
                    shape_id : 1..2,
                    transform_matrix : {IdentityMatrix, <<1, 0, 0, 1, 10, 5>>},
                    legacy : BOOLEAN]
        entry(s, k) ==
            LET base == [instance_id |-> k,
                         page |-> s[k].page,
                         shape_id |-> s[k].shape_id,
                         bbox_local |-> <<0, 0, 10, 10>>,
                         transform_matrix |-> s[k].transform_matrix,
                         snippet_raw |-> BodyRect]
            IN  IF s[k].legacy THEN SetField(base, "ocr_text", "A") ELSE base
    IN  {[k \in DOMAIN s |-> entry(s, k)] :
            s \in UNION {[1..n -> choices] : n \in 0..MaxStageInst}}

Step1Definitions ==
    [k \in 1..2 |->
        [key |-> Str(k), semantic_label |-> "", count |-> 2,
         color_rgb |-> k - 1, is_closed |-> TRUE]]

InitStages ==
    /\ \E blocks \in BlockLists :
         page_text_blocks =
            [p \in 1..MaxPages |-> IF p = 1 THEN blocks ELSE << >>]
    /\ \E instances \in StageInstances :
         step1_json = [shape_definitions |-> Step1Definitions,
                       instances |-> instances]
    /\ data = step1_json
    /\ stage_input = << >>
    /\ stages = 0
    /\ PipeIdle
    /\ AlgIdle
    /\ XfIdle
    /\ CropIdle
    /\ MarkIdle

\* bbox_center(bbox); the boxes of the model have even sums
bbox_center(bbox) == <<(bbox[1] + bbox[3]) \div 2, (bbox[2] + bbox[4]) \div 2>>

\* the square of distance(p1, p2)
distance2(p1, p2) ==
    (p1[1] - p2[1]) * (p1[1] - p2[1]) + (p1[2] - p2[2]) * (p1[2] - p2[2])

\* round(dist, 2) in hundredths, for dist < threshold, from its square
Round2(d2) ==
    LET whole == CHOOSE r \in 0..threshold :
                     r * r <= d2 /\ d2 < (r + 1) * (r + 1)
    IN  CHOOSE n \in (100 * whole)..(100 * whole + 100) :
            /\ n = 0 \/ (2 * n - 1) * (2 * n - 1) <= 40000 * d2
            /\ 40000 * d2 < (2 * n + 1) * (2 * n + 1)

RECURSIVE NearestFrom(_, _, _, _)
\* the loop "for tb in text_blocks": best is the index of nearest, 0 if None
NearestFrom(page_center, text_blocks, k, best) ==
    IF k > Len(text_blocks) THEN best
    ELSE LET tb == text_blocks[k]
         IN  IF tb.position = NoneValue
             THEN NearestFrom(page_center, text_blocks, k + 1, best)
             ELSE LET d2 == distance2(page_center, tb.position)
                      closer ==
                          /\ best = 0 \/ d2 < distance2(page_center,
                                               text_blocks[best].position)
                          /\ d2 < threshold * threshold
                  IN  NearestFrom(page_center, text_blocks, k + 1,
                                  IF closer THEN k ELSE best)

find_nearest_text_block(shape_instance, text_blocks) ==
    LET local_center == bbox_center(shape_instance["bbox_local"])
        page_center ==
            transform_point(local_center, shape_instance["transform_matrix"])
    IN  [index |-> NearestFrom(page_center, text_blocks, 1, 0),
         center |-> page_center]

\* page_text_blocks.get(page_num, [])
BlocksOfPage(page_num) ==
    IF page_num \in DOMAIN page_text_blocks THEN page_text_blocks[page_num]
    ELSE << >>

\* the three fields detect_markers sets on an instance
MarkerFields(instance) ==
    LET text_blocks == BlocksOfPage(instance["page"])
        found == find_nearest_text_block(instance, text_blocks)
        nearest_text == text_blocks[found.index]
    IN  IF found.index # 0 /\ nearest_text.has_text_operators
        THEN SetField(
               SetField(
                 SetField(instance, "is_predicted_annotation_marker", TRUE),
                 "marker_text_raw", nearest_text.content),
               "marker_distance",
               <<Round2(distance2(found.center, nearest_text.position))>>)
        ELSE SetField(
               SetField(
                 SetField(instance, "is_predicted_annotation_marker", FALSE),
                 "marker_text_raw", NoneValue),
               "marker_distance", NoneValue)

\* the two fields detect_markers sets on a shape definition
LabelFields(shape_def, is_marker) ==
    SetField(SetField(shape_def, "is_predicted_annotation_marker", is_marker),
             "semantic_label",
             IF is_marker THEN "Annotation Marker" ELSE "Graphic Block")

\* detect_markers, from json.load to json.dump
DetectMarkers ==
    /\ stages < MaxStages
    /\ LET marked == [k \in DOMAIN data.instances |->
                         MarkerFields(data.instances[k])]
           shape_marker_flags ==
               {Str(marked[k]["shape_id"]) :
                   k \in {j \in DOMAIN marked :
                             marked[j]["is_predicted_annotation_marker"]}}
           defs == [k \in DOMAIN data.shape_definitions |->
                       LabelFields(data.shape_definitions[k],
                                   data.shape_definitions[k]["key"]
                                       \in shape_marker_flags)]
       IN  data' = [shape_definitions |-> defs, instances |-> marked]
    /\ stage_input' = data
    /\ stages' = stages + 1
    /\ UNCHANGED <<page_text_blocks, step1_json>>
    /\ UNCHANGED <<pipeVars, algVars, xfVars, cropVars, markVars>>

\* the captions of the model: no crop image, a picture without text and a
\* picture with text
Captions == {"[File Not Found]", "A circle with No Text", "The letter A"}

\* not caption.startswith("[") and "no text" not in caption.lower()
ocr_has_text(caption) ==
    /\ caption \notin {"[File Not Found]"}
    /\ caption \notin {"A circle with No Text"}

\* the update of one instance by run_moondream_pipeline
OcrFields(instance, caption) ==
    DelField(SetField(SetField(instance, "moondream_caption", caption),
                      "ocr_has_text", ocr_has_text(caption)),
             "ocr_text")

\* run_moondream_pipeline, from json.load to json.dump
RunOcr ==
    /\ stages < MaxStages
    /\ \E caption \in [DOMAIN data.instances -> Captions] :
         data' = [shape_definitions |-> data.shape_definitions,
                  instances |-> [k \in DOMAIN data.instances |->
                                    OcrFields(data.instances[k], caption[k])]]
    /\ stage_input' = data
    /\ stages' = stages + 1
    /\ UNCHANGED <<page_text_blocks, step1_json>>
    /\ UNCHANGED <<pipeVars, algVars, xfVars, cropVars, markVars>>

NextStages == DetectMarkers \/ RunOcr

SpecStages == InitStages /\ [][NextStages]_vars

\* ------------------------------------------------------------------------
\* Properties of the downstream stages (specification SpecStages)
\* ------------------------------------------------------------------------
Step1Fields ==
    {"instance_id", "page", "shape_id", "bbox_local", "transform_matrix",
     "snippet_raw"}

\* the instances of b are those of a, in the same order, with the same
\* values in the fields Step 1 wrote
SameStep1Fields(a, b) ==
    /\ Len(a) = Len(b)
    /\ \A k \in DOMAIN a :
          /\ Step1Fields \subseteq DOMAIN b[k]
          /\ \A f \in Step1Fields : b[k][f] = a[k][f]

\* C16: detect_markers and run_moondream_pipeline leave instance_id, page,
\* shape_id, bbox_local, transform_matrix and snippet_raw of every instance
\* as they were in the stage's input, and keep the number and order of the
\* instances, after any sequence of these stages.
C16_StagesKeepStep1Fields ==
    stages > 0 =>
        /\ SameStep1Fields(stage_input.instances, data.instances)
        /\ SameStep1Fields(step1_json.instances, data.instances)

\* both stages were run on two instances: one is a marker at a distance
\* that had to be rounded, and a legacy field was deleted
C16_Witness ==
    /\ stages = 2
    /\ Len(data.instances) = 2
    /\ \E k \in DOMAIN data.instances :
          /\ "marker_distance" \in DOMAIN data.instances[k]
          /\ data.instances[k]["marker_distance"] = <<707>>
          /\ "moondream_caption" \in DOMAIN data.instances[k]
    /\ \E k \in DOMAIN data.instances :
          /\ "ocr_text" \in DOMAIN step1_json.instances[k]
          /\ "ocr_text" \notin DOMAIN data.instances[k]

TypeOK ==
    /\ pc \in {"idle", "open", "aborted", "pass1", "pass2", "value_error",
              "done", "write_json", "io_error", "end"}
    /\ idx \in 0..Len(corpus)
    /\ xpc \in {"idle", "call", "returned"}
    /\ cpc \in {"idle", "loop", "done"}
    /\ ci \in 0..MaxInst

\* ------------------------------------------------------------------------
\* Properties of Step 1 (specification Spec)
\* ------------------------------------------------------------------------
\* the normalized key of the k-th match of the corpus
KeyAt(k) == normalize_snippet(corpus[k].frag.snippet)

CorpusKeys == {KeyAt(k) : k \in DOMAIN corpus}

\* corpus-wide occurrence count of a key
Occurs(norm) == Cardinality({k \in DOMAIN corpus : KeyAt(k) = norm})

FirstSeen(norm) == SetMin({k \in DOMAIN corpus : KeyAt(k) = norm})

RegistryBuilt == pc \notin {"idle", "open", "aborted", "pass1"}

RegistryIds == {global_registry[k].id : k \in DOMAIN global_registry}

\* C1: once Pass 1 has returned, a normalized key is in the registry iff it
\* occurs more than once in the whole corpus, the ids of the registry are
\* exactly 1..K for K retained keys, distinct keys have distinct ids, and
\* ids increase in the order in which the retained keys first appear.
C1_RetainedIdsByFirstAppearance ==
    RegistryBuilt =>
        /\ \A norm \in CorpusKeys :
              norm \in Keys(global_registry) <=> Occurs(norm) > 1
        /\ Keys(global_registry) \subseteq CorpusKeys
        /\ RegistryIds = 1..Cardinality(Keys(global_registry))
        /\ \A j, k \in DOMAIN global_registry :
              /\ j # k => /\ global_registry[j].norm # global_registry[k].norm
                          /\ global_registry[j].id # global_registry[k].id
              /\ global_registry[j].id < global_registry[k].id
                    <=> FirstSeen(global_registry[j].norm)
                          < FirstSeen(global_registry[k].norm)

\* two keys retained, the first of them met again only after the second
C1_Witness ==
    /\ pc = "done"
    /\ Len(global_registry) = 2
    /\ Len(corpus) = 4
    /\ KeyAt(1) = KeyAt(4)
    /\ KeyAt(2) = KeyAt(3)
    /\ corpus[1].page # corpus[4].page

InstancesOf(id) ==
    Cardinality({n \in DOMAIN json_instances : json_instances[n].shape_id = id})

\* C2: at the end of Pass 1 + Pass 2 the stored count of every shape
\* definition equals the number of instances that reference its id.
C2_CountEqualsInstances ==
    pc = "done" =>
        \A k \in DOMAIN global_registry :
            global_registry[k].count = InstancesOf(global_registry[k].id)

\* C3: the n-th recorded instance has instance_id n, so instance ids are
\* unique and strictly increasing over all pages and streams.
C3_InstanceIdsSequential ==
    \A n \in DOMAIN json_instances : json_instances[n].instance_id = n

\* three instances recorded from two pages and from two streams of a page
C3_Witness ==
    /\ pc = "done"
    /\ Len(json_instances) >= 3
    /\ \E j, k \in DOMAIN json_instances :
          json_instances[j].page # json_instances[k].page
    /\ \E j, k \in DOMAIN corpus :
          /\ corpus[j].page = corpus[k].page
          /\ corpus[j].stream # corpus[k].stream
    /\ \E k \in DOMAIN corpus :
          KeyAt(k) \notin Keys(global_registry)

\* the matches of page p whose body is the text b
BodyOnPage(b, p) ==
    {k \in DOMAIN corpus : corpus[k].page = p /\ corpus[k].frag.snippet = b}

\* the body "0 0 10 10 re f" twice on page 1 and once on page 2, and no
\* other key more than once
TwoPlusOne ==
    /\ Cardinality(BodyOnPage(BodyRect, 1)) = 2
    /\ Cardinality(BodyOnPage(BodyRect, 2)) = 1
    /\ \A k \in DOMAIN corpus :
          corpus[k].frag.snippet # BodyRect => Occurs(KeyAt(k)) = 1

\* C12: for a two-page document with the body "0 0 10 10 re f" twice on
\* page 1 and once on page 2 and nothing else repeating, the output JSON
\* has exactly one shape definition, keyed "1", with count 3 and is_closed
\* true, and its instances array has length 3.
C12_TwoPlusOneExample ==
    (pc = "end" /\ TwoPlusOne) =>
        /\ Len(json_file.shape_definitions) = 1
        /\ json_file.shape_definitions[1].key = <<"1">>
        /\ json_file.shape_definitions[1].count = 3
        /\ json_file.shape_definitions[1].is_closed = TRUE
        /\ Len(json_file.instances) = 3

\* the example document with a fourth, unrepeated fragment, written out
C12_Witness ==
    /\ pc = "end"
    /\ TwoPlusOne
    /\ Len(corpus) = 4
    /\ json_file # << >>

\* the k-th match is a retained shape
Retained(k) == KeyAt(k) \in Keys(global_registry)

\* the k-th match is a retained shape for which get_bounding_box gives None
RetainedNoBBox(k) ==
    Retained(k) /\ get_bounding_box(corpus[k].frag.snippet) = NoBBox

\* the step of replacement_handler on a retained occurrence without
\* geometry records nothing, keeps the counter and returns the matched text
C13_Step ==
    (pc = "pass2" /\ idx' = idx + 1 /\ RetainedNoBBox(idx + 1)) =>
        /\ json_instances' = json_instances
        /\ instance_counter' = instance_counter
        /\ last_out' = Group0(corpus[idx + 1].frag)

\* at the end of Pass 2 every match was handled, and every retained
\* occurrence that has geometry was recorded
C13_State ==
    pc = "done" =>
        /\ idx = Len(corpus)
        /\ Len(json_instances) =
              Cardinality({k \in DOMAIN corpus :
                              Retained(k) /\ ~RetainedNoBBox(k)})

\* C13: in Pass 2, when get_bounding_box returns None for a retained
\* occurrence, no instance is appended, no instance_id is consumed, the
\* fragment text is left unchanged, and the later occurrences are still
\* processed.
C13_NoGeometryOccurrenceSkipped == [][C13_Step]_vars /\ [](C13_State)

\* a retained occurrence without geometry came before a recorded one
C13_Witness ==
    /\ pc = "done"
    /\ \E j, k \in DOMAIN corpus :
          /\ j < k
          /\ RetainedNoBBox(j)
          /\ corpus[j].page = corpus[k].page
          /\ corpus[j].stream = corpus[k].stream
          /\ Retained(k) /\ ~RetainedNoBBox(k)
    /\ Len(json_instances) = 2

\* Pass 1 has counted every match of every page
CountedAll ==
    \A norm \in CorpusKeys :
        /\ norm \in Keys(snippet_counts)
        /\ Entry(snippet_counts, norm).count = Occurs(norm)

\* before the registry is built there is no id and no instance
C15_State ==
    ~RegistryBuilt =>
        /\ global_registry = << >>
        /\ json_instances = << >>
        /\ instance_counter = 1

\* the registry is written only once Pass 1 has counted everything, and
\* never after it was built
C15_Step ==
    /\ (~RegistryBuilt /\ RegistryBuilt') => CountedAll
    /\ RegistryBuilt => global_registry' = global_registry
    /\ json_instances' # json_instances => pc = "pass2" /\ CountedAll

\* C15: no shape id is assigned and no instance is recorded until Pass 1
\* has counted every fragment of every page, and during Pass 2 the registry
\* is read-only: after process_and_export it is exactly the registry that
\* analyze_global_shapes returned.
C15_PassOrdering == [](C15_State) /\ [][C15_Step]_vars

\* Pass 2 is recording instances of a two-page corpus
C15_Witness ==
    /\ pc = "pass2"
    /\ Len(json_instances) >= 1
    /\ Len(global_registry) >= 1
    /\ \E j, k \in DOMAIN corpus : corpus[j].page # corpus[k].page

\* main ended on a fatal condition: the input could not be opened or an
\* output file could not be created
FatalEnd == pc \in {"aborted", "io_error"}

\* C17: when the input document cannot be opened, or the output PDF path or
\* the output JSON path cannot be created, the run ends with neither the
\* output PDF nor the output JSON written.
C17_FatalWritesNothing ==
    FatalEnd => (~pdf_written /\ json_file = << >>)

\* the page number of the instance handled last names no page of the document
PageOutOfRange == ci > 0 /\ last.instance.page \notin 1..Len(doc)

\* C19: an instance whose page number is out of range (0, negative, or
\* greater than the number of pages) is skipped by crop_shapes: no page is
\* read and no image is written for it, and the remaining instances are
\* still processed.
C19_OutOfRangePageSkipped ==
    PageOutOfRange =>
        /\ last.outcome = "out_of_range"
        /\ \A k \in DOMAIN files : files[k].inst # ci - 1

\* ------------------------------------------------------------------------
\* Properties of two runs (specification SpecRerun)
\* ------------------------------------------------------------------------
BothRunsEnded == run = 2 /\ pc = "end"

\* C11: running Pass 1 and Pass 2 twice on the same unchanged input yields
\* shape_definitions that agree in ids, counts and closed flags, with the
\* same key-to-id mapping; only the colours may differ.
C11_RerunSameDefinitions ==
    BothRunsEnded =>
        LET d1 == first_run.json.shape_definitions
            d2 == json_file.shape_definitions
            r1 == first_run.registry
            r2 == global_registry
        IN  /\ Len(d1) = Len(d2)
            /\ \A k \in DOMAIN d1 :
                  /\ d1[k].key = d2[k].key
                  /\ d1[k].count = d2[k].count
                  /\ d1[k].is_closed = d2[k].is_closed
                  /\ d1[k].semantic_label = d2[k].semantic_label
            /\ Keys(r1) = Keys(r2)
            /\ \A norm \in Keys(r1) : Entry(r1, norm).id = Entry(r2, norm).id

\* two shapes, coloured differently by the two runs
C11_Witness ==
    /\ BothRunsEnded
    /\ Len(json_file.shape_definitions) = 2
    /\ json_file.shape_definitions[1].color_rgb
          # first_run.json.shape_definitions[1].color_rgb

\* ------------------------------------------------------------------------
\* Properties of the closed flag (specification SpecClosed)
\* ------------------------------------------------------------------------
\* h, re and the fill / close-and-paint operators
ClosingOps == {"h", "re", "s", "f", "F", "f*", "b", "B", "b*", "B*"}

\* the whitespace-separated tokens of the first-seen body of a key
RepresentativeTokens(norm) ==
    Range(Tokens(corpus[FirstSeen(norm)].frag.snippet))

\* C18: the closed flag of every shape definition is true iff the tokens of
\* its representative body contain h, re or one of s, f, F, f*, b, B, b*,
\* B*; a body painted only by S or n, without h or re, gets false.
C18_ClosedFlag ==
    /\ RegistryBuilt =>
          \A k \in DOMAIN global_registry :
              global_registry[k].is_closed
                 <=> RepresentativeTokens(global_registry[k].norm)
                        \cap ClosingOps # {}
    /\ pc = "end" =>
          \A k \in DOMAIN json_file.shape_definitions :
              json_file.shape_definitions[k].is_closed
                 = global_registry[k].is_closed

\* a path filled by f* and the same path only stroked, both written out
C18_Witness ==
    /\ pc = "end"
    /\ Len(json_file.shape_definitions) = 2
    /\ "f*" \in RepresentativeTokens(global_registry[1].norm)
    /\ json_file.shape_definitions[1].is_closed
    /\ RepresentativeTokens(global_registry[2].norm) \cap PaintOps = {"S"}
    /\ "h" \notin RepresentativeTokens(global_registry[2].norm)
    /\ "re" \notin RepresentativeTokens(global_registry[2].norm)
    /\ ~json_file.shape_definitions[2].is_closed

\* ------------------------------------------------------------------------
\* Properties of malformed operands (specification SpecMalformed)
\* ------------------------------------------------------------------------
\* C14: a retained occurrence whose transform operands or coordinate
\* operands are not valid numbers ("-", "1.2.3") never aborts the batch:
\* Pass 2 skips it or takes the identity matrix and goes on with the
\* remaining occurrences and pages, so main never ends on the error of one
\* occurrence.
C14_MalformedNeverAborts == pc # "value_error"

\* ------------------------------------------------------------------------
\* Properties of comment text (specification SpecComments)
\* ------------------------------------------------------------------------
\* the matches among the first n that lie outside comment text
Uncommented(n) == {k \in 1..n : ~corpus[k].commented}

\* C20: comment text is stripped before matching in both passes, so a
\* fragment pattern inside a comment is never counted in Pass 1 and never
\* recorded as an instance in Pass 2.
C20_CommentsNeverMatched ==
    /\ \A e \in Range(snippet_counts) :
          e.count <= Cardinality({k \in Uncommented(Len(corpus)) :
                                     KeyAt(k) = e.norm})
    /\ Len(json_instances) <= Cardinality(Uncommented(Len(corpus)))

\* ------------------------------------------------------------------------
\* Properties of the page header (specification SpecTransform)
\* ------------------------------------------------------------------------
\* the elements of the stream that are not comment text
Visible == {k \in DOMAIN contents : contents[k].kind \notin {"%q", "%cm"}}

\* the boundary tokens outside comment text
BoundaryTokens == {k \in Visible : contents[k].kind \in {"q", "BT", "Do"}}

RECURSIVE EndOffset(_)
\* the number of characters of the comment-free text up to the end of the
\* k-th element
EndOffset(k) ==
    IF k = 0 THEN 0
    ELSE EndOffset(k - 1) + (IF k \in Visible THEN ElemLen(contents[k]) ELSE 0)

\* the k-th element lies in the page header
InHeader(k) ==
    /\ k \in Visible
    /\ IF BoundaryTokens # {} THEN k < SetMin(BoundaryTokens)
       ELSE EndOffset(k) <= HeaderLimit

RECURSIVE TransformsFrom(_)
\* the matrices of the transform operators of the header from the k-th
\* element on, in encounter order
TransformsFrom(k) ==
    IF k > Len(contents) THEN << >>
    ELSE IF InHeader(k) /\ contents[k].kind = "cm"
         THEN <<contents[k].m>> \o TransformsFrom(k + 1)
         ELSE TransformsFrom(k + 1)

\* C21: get_global_transform composes only the transforms of the page
\* header: those before the first q, BT or Do of the comment-stripped
\* stream, or within its first 1000 characters when it holds no boundary
\* token; a transform after the boundary or beyond the limit never
\* contributes, a boundary token in a comment does not end the header, and
\* a header without transforms yields the identity matrix.
C21_OnlyHeaderTransforms ==
    xpc = "returned" =>
        /\ TransformsFrom(1) = << >> => global_matrix = IdentityMatrix
        /\ \A p \in ComposePoints :
              transform_point(p, global_matrix)
                = ApplyLastFirst(p, TransformsFrom(1))

\* a transform, then a boundary token, then another transform that is left
\* out of the result
C21_Witness ==
    /\ xpc = "returned"
    /\ Len(contents) = 3
    /\ contents[1].kind = "cm"
    /\ contents[2].kind \in {"q", "BT", "Do"}
    /\ contents[3].kind = "cm"
    /\ contents[3].m # contents[1].m
    /\ global_matrix = contents[1].m

\* ------------------------------------------------------------------------
\* Properties of the page rotation (specification SpecCrop)
\* ------------------------------------------------------------------------
\* the index in doc of the page the last instance was computed on
LastPage == ((last.instance.page - 1) % Len(doc)) + 1

\* a step of the loop leaves every page with the rotation it had, and the
\* boxes of a processed instance were computed at rotation 0
C22_Step ==
    /\ DOMAIN doc' = DOMAIN doc
    /\ \A k \in DOMAIN doc : doc'[k].rotation = doc[k].rotation
    /\ (ci' # ci /\ last'.outcome \in {"emitted", "skipped"})
          => last'.rotation = 0

\* C22: crop_shapes sets the page rotation to 0 only while one instance is
\* computed: after each instance, on the emitted path and on the skip path,
\* the page has the rotation it had before, so after the loop every page
\* has its original rotation.
C22_RotationRestored == [][C22_Step]_vars

\* the loop has ended after an image of a rotated page was written and an
\* instance on a rotated page was skipped
C22_Witness ==
    /\ cpc = "done"
    /\ ci >= 2
    /\ last.outcome = "skipped"
    /\ doc[LastPage].rotation # 0
    /\ \E k \in DOMAIN files : doc[files[k].page].rotation # 0

====
